---- MODULE Spec2Model ----
(***************************************************************************)
(* Monte Carlo simulation of light transport through a scattering slab     *)
(* (MCSimulation.cpp).                                                     *)
(*                                                                         *)
(* Two number domains are used.                                            *)
(*  - Photon weights and the sums they are added to (weight, Rd, Tt,       *)
(*    records) are IEEE single-precision values, held as an integer count  *)
(*    of 2^-25; RoundF rounds a result to the nearest float (24-bit        *)
(*    significand, ties to even), so 1 - 1/3 - 1/3 - 1/3 gives what the    *)
(*    binary gives.                                                        *)
(*  - Geometry (positions, directions, free paths, uniform deviates) is    *)
(*    fixed point with S units per 1.0.  A float NaN is the value NaN; it  *)
(*    propagates through every operation and makes every comparison false, *)
(*    as in IEEE arithmetic.                                               *)
(***************************************************************************)
EXTENDS Integers, Sequences, FiniteSets

\* ------------------------------------------------------------ bounds
\* Side of the output image (512 in main).
size == 3
\* Value of main's nrPasses (64 in main).
nrPasses == 2
\* Photons per pass (1000000 in MCSimulation).
nrPhotons == 2
\* Cap on the interactions of one photon that the model follows.
MaxSteps == 4

\* ------------------------------------------------------------ numbers
\* Fixed-point units per 1.0 (geometry).
S == 10 ^ 4
\* Weight units per 1.0f (weights are multiples of 2^-25).
W == 2 ^ 25
\* The float NaN, a value outside the fixed-point range.
NaN == 10 ^ 9

IsNaN(a) == a = NaN

Abs(a) == IF a < 0 THEN -a ELSE a

Sign(a) == IF a < 0 THEN -1 ELSE 1

\* n / q rounded to the nearest integer (q # 0).
RoundDiv(n, q) == Sign(n) * Sign(q) * ((2 * Abs(n) + Abs(q)) \div (2 * Abs(q)))

FAdd(a, b) == IF IsNaN(a) \/ IsNaN(b) THEN NaN ELSE a + b

FSub(a, b) == IF IsNaN(a) \/ IsNaN(b) THEN NaN ELSE a - b

FNeg(a) == IF IsNaN(a) THEN NaN ELSE -a

FMul(a, b) == IF IsNaN(a) \/ IsNaN(b) THEN NaN ELSE RoundDiv(a * b, S)

\* 0/0 is NaN; no quotient with a zero divisor and a non-zero dividend is
\* ever formed by the walk (the callers test the divisor first).
FDiv(a, b) == IF IsNaN(a) \/ IsNaN(b) \/ b = 0 THEN NaN ELSE RoundDiv(a * S, b)

FGt(a, b) == ~IsNaN(a) /\ ~IsNaN(b) /\ a > b

FLt(a, b) == ~IsNaN(a) /\ ~IsNaN(b) /\ a < b

RECURSIVE SqrtSearch(_, _, _)
\* The largest r in lo..hi with r * r <= n.
SqrtSearch(n, lo, hi) ==
    IF lo >= hi THEN lo
    ELSE LET mid == (lo + hi + 1) \div 2
         IN  IF mid * mid <= n THEN SqrtSearch(n, mid, hi)
                               ELSE SqrtSearch(n, lo, mid - 1)

\* sqrt: NaN for a negative or NaN argument.
FSqrt(a) == IF IsNaN(a) \/ a < 0 THEN NaN ELSE SqrtSearch(a * S, 0, 4 * S)

RECURSIVE Ulp(_)
\* Spacing, in weight units, of the floats around a magnitude of k units.
Ulp(k) == IF k < 2 ^ 24 THEN 1 ELSE 2 * Ulp(k \div 2)

\* Round k weight units to the nearest float, ties to even.
RoundF(k) ==
    LET a  == Abs(k)
        q  == Ulp(a)
        lo == (a \div q) * q
        r  == a - lo
        up == IF 2 * r > q \/ (2 * r = q /\ (lo \div q) % 2 = 1) THEN lo + q ELSE lo
    IN  Sign(k) * up

\* ------------------------------------------------------------ parameters
sigma_s == 2
\* Anisotropy 0.75f.
g == (3 * S) \div 4
\* Slab thickness 0.5f.
d == S \div 2
slabSize == 2 * S
\* Russian roulette parameter.
m == 10
\* 0.001f is 33554.43 weight units: a weight of k units is below it iff k <= 33554.
threshold == 33554

\* The values sigma_a takes: 1.0f as coded, and the degenerate 0.
SigmaAValues == {0, 1}

\* ------------------------------------------------------------ random draws
\* distr(rng) at line 74, and -log of it.
PathDraws == {9000, 273}
NegLog(u) == CASE u = 9000 -> 1054
               [] u = 273  -> 36009
\* distr(rng) in GetCosTheta.
CosDraws == {0, 2222, 9999}
\* distr(rng) at line 25; phi = 2 PI u is a multiple of PI/2.
PhiDraws == {0, 2500}
Cos2Pi(u) == CASE u = 0 -> S [] u = 2500 -> 0 [] u = 5000 -> -S [] u = 7500 -> 0
Sin2Pi(u) == CASE u = 0 -> 0 [] u = 2500 -> S [] u = 5000 -> 0 [] u = 7500 -> -S
\* distr(rng) at line 107.
RouletteDraws == {500, 5000}

\* Contents a freshly allocated, never written float can show: zero pages
\* or a fill pattern.
Indeterminate == {0, 3 * W}

\* sigma_a          MCSimulation's sigma_a (line 56)
\* records, pixels  main's buffers (lines 125-126)
\* i                main's loop variable (line 128)
\* passes           the calls of MCSimulation made so far (line 129)
\* pc               where control is: "main" (line 128), "pass" (line 65),
\*                  "walk" (line 72), "done" (past line 146)
\* photon           MCSimulation's loop variable i (line 65)
\* Rd, Tt           MCSimulation's aggregates (lines 62-63)
\* weight .. mu_z   the photon's locals (lines 66-69)
\* state            how the photon's while loop stands: "Propagating",
\*                  "Exited" (break of line 92), "Absorbed" (break of line
\*                  107, or the while test failing); "None" before the
\*                  first photon
\* steps            iterations of the while loop that went past line 93
\* cosTheta         ScatterPhoton's cosTheta of the latest call (line 24)
VARIABLES sigma_a, records, pixels, i, passes, pc,
          photon, Rd, Tt, weight, x, y, z, mu_x, mu_y, mu_z,
          state, steps, cosTheta

vars == <<sigma_a, records, pixels, i, passes, pc,
          photon, Rd, Tt, weight, x, y, z, mu_x, mu_y, mu_z,
          state, steps, cosTheta>>

sigma_t == sigma_a + sigma_s

\* ------------------------------------------------------------ GetCosTheta
GetCosTheta(gg, u) ==
    IF gg = 0 THEN FSub(FMul(2 * S, u), S)
    ELSE LET mu == FDiv(FSub(S, FMul(gg, gg)),
                        FAdd(FSub(S, gg), FMul(FMul(2 * S, gg), u)))
         IN  FDiv(FSub(FMul(FMul(S, gg), gg), FMul(mu, mu)), FMul(2 * S, gg))

\* ------------------------------------------------------------ ScatterPhoton
\* The new direction <<mu_x, mu_y, mu_z>> for the deviates u1 (cosine) and
\* u2 (azimuth).
ScatterPhoton(mx, my, mz, gg, u1, u2) ==
    LET cosT     == GetCosTheta(gg, u1)
        sinTheta == FSqrt(FSub(S, FMul(cosT, cosT)))
        sinPhi   == Sin2Pi(u2)
        cosPhi   == Cos2Pi(u2)
    IN  IF mz = S
        THEN <<FMul(sinTheta, cosPhi), FMul(sinTheta, sinPhi), cosT>>
        ELSE IF mz = -S
        THEN <<FMul(sinTheta, cosPhi), FMul(FNeg(sinTheta), sinPhi), FNeg(cosT)>>
        ELSE LET denom     == FSqrt(FSub(S, FMul(mz, mz)))
                 muzcosphi == FMul(mz, cosPhi)
                 ux == FAdd(FDiv(FMul(sinTheta, FSub(FMul(mx, muzcosphi), FMul(my, sinPhi))), denom),
                            FMul(mx, cosT))
                 uy == FAdd(FDiv(FMul(sinTheta, FAdd(FMul(my, muzcosphi), FMul(mx, sinPhi))), denom),
                            FMul(my, cosT))
                 uz == FAdd(FMul(FMul(FNeg(denom), sinTheta), cosPhi), FMul(mz, cosT))
             IN  <<ux, uy, uz>>

\* ------------------------------------------------------------ MCSimulation
\* Free path s = -log(u) / sigma_t.
FreePath(u) == RoundDiv(NegLog(u), sigma_t)

\* Distance to the slab face ahead; 0.0f when mu_z is neither > 0 nor < 0.
BoundaryDist ==
    IF FGt(mu_z, 0) THEN FDiv(FSub(d, z), mu_z)
    ELSE IF FLt(mu_z, 0) THEN FDiv(FNeg(z), mu_z)
    ELSE 0

\* (int) conversion: truncation toward zero; of a NaN it is undefined and
\* any of these may come out.
IntCast(v) ==
    IF IsNaN(v) THEN {-1, 0, size}
    ELSE {Sign(v) * (Abs(v) \div S)}

\* (x + slabSize / 2) / slabSize * size
Project(v) == FMul(FDiv(FAdd(v, FDiv(slabSize, 2 * S)), slabSize), size * S)

\* The test of line 88.
InGrid(xi, yi) ==
    FGt(mu_z, 0) /\ xi >= 0 /\ FLt(x, size * S) /\ yi >= 0 /\ yi < size

\* dw with the scattering coefficient in the numerator.
dwScattering == RoundF(RoundDiv(sigma_s * W, sigma_t))

\* dw = sigma_a / sigma_t, as a float.
dw == RoundF(RoundDiv(sigma_a * W, sigma_t))

\* Absorption with the sign of dw flipped.
AbsorbAdds(w) == RoundF(w + dw)

\* Absorption without the clamp of line 103.
AbsorbNoClamp(w) == RoundF(w - dw)

\* weight -= dw; weight = max(0, weight)
Absorb(w) == LET w1 == RoundF(w - dw) IN IF w1 < 0 THEN 0 ELSE w1

\* weight *= m
Boost(w) == RoundF(w * m)

\* A while test that lets a weight of 0 through.
LoopContinuesNonNegative(w) == w >= 0

\* The while test of line 72.
LoopContinues(w) == w # 0

Cells == 0 .. (size * size * 3 - 1)

Init ==
    /\ sigma_a \in SigmaAValues
    /\ \E junk \in Indeterminate : records = [c \in Cells |-> junk]
    /\ \E junk \in Indeterminate :
           pixels = [c \in 0 .. (size * size - 1) |-> [num |-> junk, den |-> 1]]
    /\ i = 1
    /\ passes = 0
    /\ pc = "main"
    /\ photon = 0
    /\ Rd = 0 /\ Tt = 0
    /\ weight = 0
    /\ x = 0 /\ y = 0 /\ z = 0
    /\ mu_x = 0 /\ mu_y = 0 /\ mu_z = 0
    /\ state = "None"
    /\ steps = 0
    /\ cosTheta = 0

walkVars == <<weight, x, y, z, mu_x, mu_y, mu_z, state, steps, cosTheta>>

\* main, line 129: enter MCSimulation; Rd and Tt start at 0.
CallMCSimulation ==
    /\ pc = "main" /\ i < nrPasses
    /\ pc' = "pass"
    /\ passes' = passes + 1
    /\ photon' = 0
    /\ Rd' = 0 /\ Tt' = 0
    /\ UNCHANGED <<sigma_a, records, pixels, i, walkVars>>

\* Lines 65-69: the next photon starts at the origin, heading along +z.
BeginPhoton ==
    /\ pc = "pass" /\ photon < nrPhotons
    /\ pc' = "walk"
    /\ weight' = W
    /\ x' = 0 /\ y' = 0 /\ z' = 0
    /\ mu_x' = 0 /\ mu_y' = 0 /\ mu_z' = S
    /\ state' = "Propagating"
    /\ steps' = 0
    /\ UNCHANGED <<sigma_a, records, pixels, i, passes, photon, Rd, Tt, cosTheta>>

\* Lines 74-93: the free path reaches past the boundary distance.
PhotonExit ==
    /\ pc = "walk" /\ LoopContinues(weight)
    /\ \E u \in PathDraws :
         /\ FGt(FreePath(u), BoundaryDist)
         /\ IF FGt(mu_z, 0)
            THEN Tt' = RoundF(Tt + weight) /\ Rd' = Rd
            ELSE Rd' = RoundF(Rd + weight) /\ Tt' = Tt
         /\ \E xi \in IntCast(Project(x)), yi \in IntCast(Project(y)) :
              IF InGrid(xi, yi)
              THEN records' = [records EXCEPT ![yi * size + xi] = RoundF(@ + weight)]
              ELSE records' = records
    /\ state' = "Exited"
    /\ photon' = photon + 1
    /\ pc' = "pass"
    /\ UNCHANGED <<sigma_a, pixels, i, passes, weight, x, y, z, mu_x, mu_y, mu_z,
                   steps, cosTheta>>

\* Lines 74-107: no exit; the photon advances, is absorbed, falls below the
\* threshold and loses the roulette.
PhotonKilled ==
    /\ pc = "walk" /\ LoopContinues(weight) /\ steps < MaxSteps
    /\ \E u \in PathDraws, r \in RouletteDraws :
         LET s == FreePath(u) IN
         /\ ~FGt(s, BoundaryDist)
         /\ Absorb(weight) <= threshold
         /\ FGt(r, FDiv(S, m * S))
         /\ x' = FAdd(x, FMul(s, mu_x))
         /\ y' = FAdd(y, FMul(s, mu_y))
         /\ z' = FAdd(z, FMul(s, mu_z))
         /\ weight' = Absorb(weight)
    /\ state' = "Absorbed"
    /\ steps' = steps + 1
    /\ photon' = photon + 1
    /\ pc' = "pass"
    /\ UNCHANGED <<sigma_a, records, pixels, i, passes, Rd, Tt, mu_x, mu_y, mu_z,
                   cosTheta>>

\* Lines 74-113: no exit; the photon advances, is absorbed, survives (or
\* skips) the roulette and is scattered; the while test then ends the walk
\* of a photon whose weight is 0.
PhotonScatter ==
    /\ pc = "walk" /\ LoopContinues(weight) /\ steps < MaxSteps
    /\ \E u \in PathDraws, r \in RouletteDraws, u1 \in CosDraws, u2 \in PhiDraws :
         LET s  == FreePath(u)
             w1 == Absorb(weight)
             w2 == IF w1 <= threshold THEN Boost(w1) ELSE w1
             nd == ScatterPhoton(mu_x, mu_y, mu_z, g, u1, u2)
         IN
         /\ ~FGt(s, BoundaryDist)
         /\ w1 <= threshold => ~FGt(r, FDiv(S, m * S))
         /\ x' = FAdd(x, FMul(s, mu_x))
         /\ y' = FAdd(y, FMul(s, mu_y))
         /\ z' = FAdd(z, FMul(s, mu_z))
         /\ weight' = w2
         /\ cosTheta' = GetCosTheta(g, u1)
         /\ mu_x' = nd[1] /\ mu_y' = nd[2] /\ mu_z' = nd[3]
         /\ IF ~LoopContinues(w2)
            THEN state' = "Absorbed" /\ photon' = photon + 1 /\ pc' = "pass"
            ELSE state' = "Propagating" /\ photon' = photon /\ pc' = "walk"
    /\ steps' = steps + 1
    /\ UNCHANGED <<sigma_a, records, pixels, i, passes, Rd, Tt>>

\* Lines 116 and 130-132: MCSimulation returns and main recomputes pixels.
ReturnToMain ==
    /\ pc = "pass" /\ photon >= nrPhotons
    /\ pixels' = [c \in 0 .. (size * size - 1) |-> [num |-> records[c], den |-> i]]
    /\ i' = i + 1
    /\ pc' = "main"
    /\ UNCHANGED <<sigma_a, records, passes, photon, Rd, Tt, walkVars>>

\* Lines 136-146: the loop is over and pixels is written out.
Export ==
    /\ pc = "main" /\ i >= nrPasses
    /\ pc' = "done"
    /\ UNCHANGED <<sigma_a, records, pixels, i, passes, photon, Rd, Tt, walkVars>>

Next ==
    \/ CallMCSimulation
    \/ BeginPhoton
    \/ PhotonExit
    \/ PhotonKilled
    \/ PhotonScatter
    \/ ReturnToMain
    \/ Export

Spec == Init /\ [][Next]_vars

\* ============================================================ claims

Grid == 0 .. (size * size - 1)

\* C1: in every state of a pass, Rd + Tt is at most the number of photons
\* of the pass whose walk has ended (each photon adds at most 1.0).
EnergyBound == Rd + Tt <= photon * W

\* C1 witness: a photon has left the slab after an interaction and its
\* weight is in the aggregates.
EnergyBoundWitness ==
    /\ sigma_a = 1 /\ state = "Exited" /\ steps >= 1 /\ photon = nrPhotons
    /\ Rd + Tt > 0 /\ Rd + Tt < photon * W

\* C2: the cosine GetCosTheta returned to ScatterPhoton (g = 0.75, any
\* deviate) is a number in [-1, 1]; stated for the run with the coded
\* sigma_a = 1.
CosThetaInRange ==
    sigma_a = 1 => (~IsNaN(cosTheta) /\ cosTheta >= -S /\ cosTheta <= S)

\* C3: a step changes records only when the photon leaves by the far side
\* (mu_z > 0) and both projected indices lie in 0 .. size-1; stated for the
\* run with the coded sigma_a = 1.
GridWriteOnlyInBounds ==
    [][(sigma_a = 1 /\ records' # records) =>
         /\ FGt(mu_z, 0)
         /\ \A xi \in IntCast(Project(x)) : xi >= 0 /\ xi < size
         /\ \A yi \in IntCast(Project(y)) : yi >= 0 /\ yi < size]_vars

\* C4: a step taken with mu_z = 0 exactly never ends in Exited and leaves
\* Rd and Tt alone; stated for the run with the coded sigma_a = 1.
NoExitWhenMuZZero ==
    [][(sigma_a = 1 /\ pc = "walk" /\ mu_z = 0) =>
         (state' # "Exited" /\ Rd' = Rd /\ Tt' = Tt)]_vars

\* C5: before the first pass every cell of the grid holds 0; stated for the
\* run with the coded sigma_a = 1.
GridZeroBeforeFirstPass ==
    (sigma_a = 1 /\ passes = 0) => \A c \in Grid : records[c] = 0

\* C6: with sigma_a = 0 no photon is ever Absorbed and a photon's weight
\* stays 1.0 (so it is never below the roulette threshold).
SigmaZeroNeverAbsorbed ==
    sigma_a = 0 =>
        /\ state # "Absorbed"
        /\ state # "None" => (weight = W /\ weight > threshold)

\* C6 witness: with sigma_a = 0 a photon has left the slab after two
\* interactions.
SigmaZeroWitness == sigma_a = 0 /\ state = "Exited" /\ steps >= 2

\* The direction is made of numbers and its norm is 1 within 2.5e-3: the
\* 1e-4 of the claim widened to the error the fixed-point rotation shows
\* when |mu_z| is close to 1, so that only a direction that is no unit
\* vector at all fails it.
UnitNorm(a, b, c) ==
    /\ ~IsNaN(a) /\ ~IsNaN(b) /\ ~IsNaN(c)
    /\ Abs(a * a + b * b + c * c - S * S) <= 50 * S

\* C7: the direction of a propagating photon is a unit vector; stated for
\* the run with the coded sigma_a = 1.
DirectionUnit ==
    (sigma_a = 1 /\ state = "Propagating") => UnitNorm(mu_x, mu_y, mu_z)

\* C8: a step that brings a photon's weight to 0 ends the walk as Absorbed
\* and changes none of Rd, Tt and records.
ClampToZeroAbsorbs ==
    [][(pc = "walk" /\ weight' = 0) =>
         /\ state' = "Absorbed" /\ pc' = "pass"
         /\ Rd' = Rd /\ Tt' = Tt /\ records' = records]_vars

\* C8 witness: a photon whose weight was clamped to 0 survived the roulette
\* (its direction was resampled) and its walk has ended.
ClampToZeroWitness ==
    state = "Absorbed" /\ weight = 0 /\ steps = 3 /\ pc = "pass"

\* C9: at export nrPasses passes have run and every display value is the
\* grid cell divided by nrPasses; stated for the run with the coded
\* sigma_a = 1.
ExportAfterNrPasses ==
    (sigma_a = 1 /\ pc = "done") =>
        /\ passes = nrPasses
        /\ \A c \in Grid : pixels[c] = [num |-> records[c], den |-> nrPasses]

\* C10: with sigma_a = 1 a photon makes at most 3 interactions, and after
\* the third it is no longer propagating; before that its weight is 1, 2/3
\* or 1/3 according to the interactions made.
WalkEndsWithinThree ==
    sigma_a = 1 =>
        /\ steps <= 3
        /\ state = "Propagating" =>
             /\ steps < 3
             /\ weight = CASE steps = 0 -> W
                           [] steps = 1 -> 22369620
                           [] steps = 2 -> 11184809

\* C10 witness: a photon absorbed by its third interaction.
WalkEndsWitness == sigma_a = 1 /\ steps = 3 /\ state = "Absorbed"
====
